---- MODULE Spec2Model ----
(***************************************************************************)
(* Model of the PBF query server (src/src/main.rs).                        *)
(*                                                                         *)
(* main() obtains a GeoIndex either by deserializing the cache file or by  *)
(* building it from the extract (writing the cache afterwards), then       *)
(* serves it read-only over websocket sessions (ws_handler).               *)
(*                                                                         *)
(* The geo module (GeoIndex::new/build/find, the serde layout of the       *)
(* index) is not part of the sources at hand; it is modelled from the      *)
(* design document: boundaries are axis-aligned boxes with box holes,      *)
(* find() is smallest-area-wins with first-inserted tie-break.             *)
(***************************************************************************)
EXTENDS Integers, Sequences, FiniteSets, TLC

VARIABLES
    cacheArg,   \* args.cache is Some(path)
    extract,    \* the extract at args.pbf
    file0,      \* the cache file as it was when the process started
    file,       \* the cache file on disk now
    pc,         \* position of main()
    geo,        \* the GeoIndex held by main(), later shared through the Arc
    opens,      \* calls of File::open on the cache path
    reads,      \* calls of bincode::deserialize_from
    builds,     \* calls of GeoIndex::build
    writes,     \* calls of std::fs::write on the cache path
    conn,       \* per connection: position of the session task
    inbox,      \* per connection: the messages taken from the inbound stream
    cur,        \* per connection: the message being answered
    log,        \* per connection: the send attempts, in order
    prev        \* what the run before this one left (n: the runs before)

vars == <<cacheArg, extract, file0, file, pc, geo, opens, reads, builds,
          writes, conn, inbox, cur, log, prev>>

startupVars == <<cacheArg, extract, file0, file, pc, geo, opens, reads,
                 builds, writes>>

sessionVars == <<conn, inbox, cur, log>>

-----------------------------------------------------------------------------
(* Bounds *)

NumConns == 2

MaxMsgs == 2

MaxRuns == 2

Conns == 1..NumConns

-----------------------------------------------------------------------------
(* Option<T>: None is the empty sequence, Some(x) the one-element one. *)

None == <<>>

Some(x) == <<x>>

IsSome(o) == Len(o) = 1

-----------------------------------------------------------------------------
(* The index (geo module, modelled from the design document). *)

Box(a, b, c, d) == [minLat |-> a, maxLat |-> b, minLon |-> c, maxLon |-> d]

BoxArea(bx) == (bx.maxLat - bx.minLat) * (bx.maxLon - bx.minLon)

RECURSIVE SumAreas(_)
SumAreas(hs) == IF hs = <<>> THEN 0 ELSE BoxArea(Head(hs)) + SumAreas(Tail(hs))

Boundary(r, bx, hs) ==
    [ref |-> r, bbox |-> bx, holes |-> hs, area |-> BoxArea(bx) - SumAreas(hs)]

Francia == Boundary("Francia", Box(40, 50, -5, 5), << Box(42, 44, 0, 2) >>)

Paris == Boundary("Paris", Box(48, 49, 2, 3), <<>>)

IleDeFrance == Boundary("Ile-de-France", Box(48, 49, 2, 3), <<>>)

\* what the extract assembles to
World == << Francia, Paris, IleDeFrance >>

\* what an earlier run left in the cache
OldWorld == << Francia >>

InBox(lat, lon, bx) ==
    /\ bx.minLat <= lat /\ lat <= bx.maxLat
    /\ bx.minLon <= lon /\ lon <= bx.maxLon

InHole(lat, lon, bx) ==
    /\ bx.minLat < lat /\ lat < bx.maxLat
    /\ bx.minLon < lon /\ lon < bx.maxLon

\* exact containment: in the outer ring and in no hole
Contains(b, lat, lon) ==
    /\ InBox(lat, lon, b.bbox)
    /\ \A i \in 1..Len(b.holes) : ~InHole(lat, lon, b.holes[i])

Abs(n) == IF n < 0 THEN -n ELSE n

\* candidates(point): positions of the boundaries whose bbox holds the point
Candidates(idx, lat, lon) == {i \in 1..Len(idx) : InBox(lat, lon, idx[i].bbox)}

\* find(lat, lon) -> Option<String>
Find(idx, lat, lon) ==
    LET hits == {i \in Candidates(idx, lat, lon) : Contains(idx[i], lat, lon)}
    IN  IF hits = {} THEN None
        ELSE LET best == CHOOSE i \in hits :
                           \A j \in hits :
                               \/ Abs(idx[i].area) < Abs(idx[j].area)
                               \/ Abs(idx[i].area) = Abs(idx[j].area) /\ i <= j
             IN  Some(idx[best].ref)

-----------------------------------------------------------------------------
(* The cache artifact: a format-version marker, the number of boundaries,  *)
(* then each boundary as ref, bbox, number of holes, holes, area.          *)

FormatVersion == 1

Tok(n) == [t |-> "int", n |-> n, s |-> ""]

STok(s) == [t |-> "str", n |-> 0, s |-> s]

EncBox(bx) == << Tok(bx.minLat), Tok(bx.maxLat), Tok(bx.minLon), Tok(bx.maxLon) >>

RECURSIVE EncBoxes(_)
EncBoxes(hs) == IF hs = <<>> THEN <<>> ELSE EncBox(Head(hs)) \o EncBoxes(Tail(hs))

EncBoundary(b) ==
    << STok(b.ref) >> \o EncBox(b.bbox) \o << Tok(Len(b.holes)) >>
        \o EncBoxes(b.holes) \o << Tok(b.area) >>

RECURSIVE EncBoundaries(_)
EncBoundaries(idx) ==
    IF idx = <<>> THEN <<>> ELSE EncBoundary(Head(idx)) \o EncBoundaries(Tail(idx))

\* bincode::serialize(&geo)
Serialize(idx) == << Tok(FormatVersion), Tok(Len(idx)) >> \o EncBoundaries(idx)

IsInt(bytes, p) == p <= Len(bytes) /\ bytes[p].t = "int"

IsStr(bytes, p) == p <= Len(bytes) /\ bytes[p].t = "str"

DecFail == [ok |-> FALSE, v |-> <<>>, p |-> 0]

\* a box at position p
DecBox(bytes, p) ==
    IF \A k \in 0..3 : IsInt(bytes, p + k)
    THEN [ok |-> TRUE,
          v |-> << Box(bytes[p].n, bytes[p+1].n, bytes[p+2].n, bytes[p+3].n) >>,
          p |-> p + 4]
    ELSE DecFail

\* n boxes from position p
RECURSIVE DecBoxes(_, _, _)
DecBoxes(bytes, p, n) ==
    IF n = 0 THEN [ok |-> TRUE, v |-> <<>>, p |-> p]
    ELSE LET h == DecBox(bytes, p)
         IN  IF ~h.ok THEN DecFail
             ELSE LET r == DecBoxes(bytes, h.p, n - 1)
                  IN  IF ~r.ok THEN DecFail
                      ELSE [ok |-> TRUE, v |-> h.v \o r.v, p |-> r.p]

\* a boundary at position p
DecBoundary(bytes, p) ==
    IF ~IsStr(bytes, p) THEN DecFail
    ELSE LET bx == DecBox(bytes, p + 1)
         IN  IF ~bx.ok \/ ~IsInt(bytes, bx.p) \/ bytes[bx.p].n < 0 THEN DecFail
             ELSE LET hs == DecBoxes(bytes, bx.p + 1, bytes[bx.p].n)
                  IN  IF ~hs.ok \/ ~IsInt(bytes, hs.p) THEN DecFail
                      ELSE [ok |-> TRUE,
                            v |-> << [ref |-> bytes[p].s, bbox |-> bx.v[1],
                                      holes |-> hs.v, area |-> bytes[hs.p].n] >>,
                            p |-> hs.p + 1]

\* n boundaries from position p
RECURSIVE DecBoundaries(_, _, _)
DecBoundaries(bytes, p, n) ==
    IF n = 0 THEN [ok |-> TRUE, v |-> <<>>, p |-> p]
    ELSE LET h == DecBoundary(bytes, p)
         IN  IF ~h.ok THEN DecFail
             ELSE LET r == DecBoundaries(bytes, h.p, n - 1)
                  IN  IF ~r.ok THEN DecFail
                      ELSE [ok |-> TRUE, v |-> h.v \o r.v, p |-> r.p]

\* bincode::deserialize_from(file): Ok(index) or Err; bytes after the last
\* boundary are not looked at
Deserialize(bytes) ==
    IF ~IsInt(bytes, 1) \/ bytes[1].n # FormatVersion THEN DecFail
    ELSE IF ~IsInt(bytes, 2) \/ bytes[2].n < 0 THEN DecFail
    ELSE DecBoundaries(bytes, 3, bytes[2].n)

-----------------------------------------------------------------------------
(* The files the process starts with. *)

Absent == [exists |-> FALSE, readable |-> FALSE, bytes |-> <<>>]

OnDisk(bytes) == [exists |-> TRUE, readable |-> TRUE, bytes |-> bytes]

Truncated(bytes, n) == SubSeq(bytes, 1, n)

OtherVersion(bytes) == << Tok(FormatVersion + 1) >> \o Tail(bytes)

CacheFiles ==
    { Absent,
      OnDisk(Serialize(OldWorld)),
      OnDisk(Truncated(Serialize(OldWorld), 0)),
      OnDisk(Truncated(Serialize(OldWorld), 7)),
      OnDisk(OtherVersion(Serialize(OldWorld))),
      OnDisk(<< STok("garbage") >>) }

\* the extract: the boundaries it assembles to, and the block (0: none)
\* that fails structural validation
GoodExtract == [bs |-> World, badAt |-> 0]

BadExtract == [bs |-> World, badAt |-> 2]

\* the runs looked at: whether a cache path is given, the file there, the extract
Runs ==
    ({TRUE} \X CacheFiles \X {GoodExtract})
        \cup ({FALSE} \X {OnDisk(Serialize(OldWorld))} \X {GoodExtract})
        \cup (BOOLEAN \X {Absent} \X {BadExtract})

-----------------------------------------------------------------------------
(* Sessions *)

NoCur == [branch |-> "none", text |-> <<>>, resp |-> <<>>]

\* no run before this one
NoPrev == [n |-> 0, wrote |-> FALSE, geo |-> <<>>]

Init ==
    /\ \E run \in Runs :
           cacheArg = run[1] /\ file0 = run[2] /\ extract = run[3]
    /\ file = file0
    /\ pc = "start"
    /\ geo = <<>>
    /\ opens = 0 /\ reads = 0 /\ builds = 0 /\ writes = 0
    /\ conn = [c \in Conns |-> "idle"]
    /\ inbox = [c \in Conns |-> <<>>]
    /\ cur = [c \in Conns |-> NoCur]
    /\ log = [c \in Conns |-> <<>>]
    /\ prev = NoPrev

-----------------------------------------------------------------------------
(* main(): obtaining the index *)

\* args.cache is None: GeoIndex::new(), then build
NoCache ==
    /\ pc = "start" /\ ~cacheArg
    /\ pc' = "build" /\ geo' = <<>> /\ builds' = builds + 1
    /\ UNCHANGED <<cacheArg, extract, file0, file, opens, reads, writes>>
    /\ UNCHANGED <<sessionVars, prev>>

\* File::open(&path) is Ok(file)
OpenCacheOk ==
    /\ pc = "start" /\ cacheArg
    /\ file.exists /\ file.readable
    /\ pc' = "load" /\ opens' = opens + 1
    /\ UNCHANGED <<cacheArg, extract, file0, file, geo, reads, builds, writes>>
    /\ UNCHANGED <<sessionVars, prev>>

\* File::open(&path) is Err: GeoIndex::new(), then build
OpenCacheErr ==
    /\ pc = "start" /\ cacheArg
    /\ ~(file.exists /\ file.readable)
    /\ pc' = "build" /\ geo' = <<>>
    /\ opens' = opens + 1 /\ builds' = builds + 1
    /\ UNCHANGED <<cacheArg, extract, file0, file, reads, writes>>
    /\ UNCHANGED <<sessionVars, prev>>

\* LoadCacheOk that drops what it decoded and goes on with a fresh GeoIndex
LoadCacheOk_FreshIndex ==
    /\ pc = "load"
    /\ Deserialize(file.bytes).ok
    /\ geo' = <<>>
    /\ pc' = "serve" /\ reads' = reads + 1
    /\ UNCHANGED <<cacheArg, extract, file0, file, opens, builds, writes>>
    /\ UNCHANGED <<sessionVars, prev>>

\* LoadCacheOk that falls through to the rebuild after loading
LoadCacheOk_ThenRebuild ==
    /\ pc = "load"
    /\ Deserialize(file.bytes).ok
    /\ geo' = <<>>
    /\ pc' = "build" /\ reads' = reads + 1 /\ builds' = builds + 1
    /\ UNCHANGED <<cacheArg, extract, file0, file, opens, writes>>
    /\ UNCHANGED <<sessionVars, prev>>

\* bincode::deserialize_from(file).unwrap() on an Ok
LoadCacheOk ==
    /\ pc = "load"
    /\ Deserialize(file.bytes).ok
    /\ geo' = Deserialize(file.bytes).v
    /\ pc' = "serve" /\ reads' = reads + 1
    /\ UNCHANGED <<cacheArg, extract, file0, file, opens, builds, writes>>
    /\ UNCHANGED <<sessionVars, prev>>

\* bincode::deserialize_from(file).unwrap() on an Err: the unwrap panics
LoadCachePanic ==
    /\ pc = "load"
    /\ ~Deserialize(file.bytes).ok
    /\ pc' = "panic_load" /\ reads' = reads + 1
    /\ UNCHANGED <<cacheArg, extract, file0, file, geo, opens, builds, writes>>
    /\ UNCHANGED <<sessionVars, prev>>

\* geo.build(&args.pbf): the next boundary is assembled into the index
BuildStep ==
    /\ pc = "build"
    /\ Len(geo) < Len(extract.bs)
    /\ extract.badAt # Len(geo) + 1
    /\ geo' = Append(geo, extract.bs[Len(geo) + 1])
    /\ UNCHANGED <<cacheArg, extract, file0, file, pc, opens, reads, builds, writes>>
    /\ UNCHANGED <<sessionVars, prev>>

\* geo.build(&args.pbf): a block fails validation, the build attempt is fatal
BuildFail ==
    /\ pc = "build"
    /\ Len(geo) < Len(extract.bs)
    /\ extract.badAt = Len(geo) + 1
    /\ pc' = "panic_build"
    /\ UNCHANGED <<cacheArg, extract, file0, file, geo, opens, reads, builds, writes>>
    /\ UNCHANGED <<sessionVars, prev>>

\* BuildDone that saves the index whether or not a cache path was given
BuildDone_AlwaysWrite ==
    /\ pc = "build"
    /\ Len(geo) = Len(extract.bs)
    /\ pc' = "write"
    /\ UNCHANGED <<cacheArg, extract, file0, file, geo, opens, reads, builds, writes>>
    /\ UNCHANGED <<sessionVars, prev>>

\* geo.build(&args.pbf) returns; with a cache path the index is saved next
BuildDone ==
    /\ pc = "build"
    /\ Len(geo) = Len(extract.bs)
    /\ pc' = IF cacheArg THEN "write" ELSE "serve"
    /\ UNCHANGED <<cacheArg, extract, file0, file, geo, opens, reads, builds, writes>>
    /\ UNCHANGED <<sessionVars, prev>>

\* std::fs::write(&path, bytes): the file is created or truncated in place
WriteCreate ==
    /\ pc = "write"
    /\ file' = [exists |-> TRUE,
                readable |-> IF file.exists THEN file.readable ELSE TRUE,
                bytes |-> <<>>]
    /\ pc' = "writing" /\ writes' = writes + 1
    /\ UNCHANGED <<cacheArg, extract, file0, geo, opens, reads, builds>>
    /\ UNCHANGED <<sessionVars, prev>>

\* std::fs::write cannot create the file: .expect("Unable to write file") panics
WriteCreateFail ==
    /\ pc = "write"
    /\ pc' = "panic_write" /\ writes' = writes + 1
    /\ UNCHANGED <<cacheArg, extract, file0, file, geo, opens, reads, builds>>
    /\ UNCHANGED <<sessionVars, prev>>

\* std::fs::write: the next piece of bincode::serialize(&geo) reaches the file
WriteChunk ==
    /\ pc = "writing"
    /\ Len(file.bytes) < Len(Serialize(geo))
    /\ file' = [file EXCEPT !.bytes = Append(@, Serialize(geo)[Len(@) + 1])]
    /\ UNCHANGED <<cacheArg, extract, file0, pc, geo, opens, reads, builds, writes>>
    /\ UNCHANGED <<sessionVars, prev>>

\* std::fs::write fails part way (disk full, I/O error): the expect panics
WriteChunkFail ==
    /\ pc = "writing"
    /\ Len(file.bytes) < Len(Serialize(geo))
    /\ pc' = "panic_write"
    /\ UNCHANGED <<cacheArg, extract, file0, file, geo, opens, reads, builds, writes>>
    /\ UNCHANGED <<sessionVars, prev>>

\* std::fs::write returns Ok
WriteDone ==
    /\ pc = "writing"
    /\ Len(file.bytes) = Len(Serialize(geo))
    /\ pc' = "serve"
    /\ UNCHANGED <<cacheArg, extract, file0, file, geo, opens, reads, builds, writes>>
    /\ UNCHANGED <<sessionVars, prev>>

\* StartServer that does not wait for the build to return
StartServer_Early ==
    /\ pc \in {"build", "serve"}
    /\ pc' = "serving"
    /\ UNCHANGED <<cacheArg, extract, file0, file, geo, opens, reads, builds, writes>>
    /\ UNCHANGED <<sessionVars, prev>>

\* Route::new()...data(Arc::new(geo)); Server::new(bind).run(app)
StartServer ==
    /\ pc = "serve"
    /\ pc' = "serving"
    /\ UNCHANGED <<cacheArg, extract, file0, file, geo, opens, reads, builds, writes>>
    /\ UNCHANGED <<sessionVars, prev>>

\* the listener cannot bind: run() returns the io::Error and main returns it
BindFail ==
    /\ pc = "serve"
    /\ pc' = "exited"
    /\ UNCHANGED <<cacheArg, extract, file0, file, geo, opens, reads, builds, writes>>
    /\ UNCHANGED <<sessionVars, prev>>

StartupPcs == {"start", "load", "build", "write", "writing", "serve"}

\* the process is killed during startup (power loss, SIGKILL)
Crash ==
    /\ pc \in StartupPcs
    /\ pc' = "crashed"
    /\ UNCHANGED <<cacheArg, extract, file0, file, geo, opens, reads, builds, writes>>
    /\ UNCHANGED <<sessionVars, prev>>

EndedPcs == {"panic_load", "panic_build", "panic_write", "crashed", "exited"}

\* this run found no cache file, built the index and left it complete in the file
WroteCache ==
    /\ cacheArg /\ ~file0.exists
    /\ builds = 1 /\ geo = extract.bs
    /\ writes = 1 /\ file.exists /\ file.bytes = Serialize(geo)

\* the process has ended, or is stopped while serving, and is started again
\* with the same arguments: main() once more, on the files as they are
Restart ==
    /\ pc \in EndedPcs \cup {"serving"}
    /\ prev.n + 1 < MaxRuns
    /\ prev' = [n |-> prev.n + 1, wrote |-> WroteCache,
                geo |-> IF WroteCache THEN geo ELSE <<>>]
    /\ file0' = file
    /\ pc' = "start"
    /\ geo' = <<>>
    /\ opens' = 0 /\ reads' = 0 /\ builds' = 0 /\ writes' = 0
    /\ conn' = [c \in Conns |-> "idle"]
    /\ inbox' = [c \in Conns |-> <<>>]
    /\ cur' = [c \in Conns |-> NoCur]
    /\ log' = [c \in Conns |-> <<>>]
    /\ UNCHANGED <<cacheArg, extract, file>>

Startup ==
    \/ NoCache \/ OpenCacheOk \/ OpenCacheErr
    \/ LoadCacheOk \/ LoadCachePanic
    \/ BuildStep \/ BuildFail \/ BuildDone
    \/ WriteCreate \/ WriteCreateFail \/ WriteChunk \/ WriteChunkFail \/ WriteDone
    \/ StartServer \/ BindFail \/ Crash

-----------------------------------------------------------------------------
(* Inbound messages *)

Num(n) == [t |-> "num", n |-> n]

Str == [t |-> "str", n |-> 0]

Missing == [t |-> "missing", n |-> 0]

\* a JSON object text with (or without) the members latitude and longitude
Obj(lat, lon) == [kind |-> "object", lat |-> lat, lon |-> lon]

\* a text that is not JSON
Garbage == [kind |-> "garbage", lat |-> Missing, lon |-> Missing]

Texts ==
    { Obj(Num(48), Num(2)),         \* inside Paris, Ile-de-France and Francia
      Obj(Num(43), Num(1)),         \* inside the hole of Francia
      Obj(Missing, Num(2)),
      Garbage }

\* the text of a message that carries none
NoText == [kind |-> "none", lat |-> Missing, lon |-> Missing]

\* Message::Text(text)
TextMsg(text) == [type |-> "text", text |-> text]

\* Message::Binary, Ping, Pong, Close
NonTexts == {[type |-> k, text |-> NoText] : k \in {"binary", "ping", "pong", "close"}}

\* the integer n as an f32: exact up to 2^24, then rounded to even mantissa
F32(n) ==
    IF Abs(n) <= 16777216 THEN n
    ELSE LET q == Abs(n) \div 2
             r == Abs(n) % 2
             m == IF r = 0 THEN 2 * q
                  ELSE IF q % 2 = 0 THEN 2 * q ELSE 2 * (q + 1)
         IN  IF n < 0 THEN -m ELSE m

\* serde_json::from_str::<QueryParams>(&text)
ParseQuery(text) ==
    IF text.kind # "object"
    THEN [ok |-> FALSE, e |-> "expected value", latitude |-> 0, longitude |-> 0]
    ELSE IF text.lat.t = "str" \/ text.lon.t = "str"
    THEN [ok |-> FALSE, e |-> "invalid type: string, expected f32",
          latitude |-> 0, longitude |-> 0]
    ELSE IF text.lat.t = "missing"
    THEN [ok |-> FALSE, e |-> "missing field latitude",
          latitude |-> 0, longitude |-> 0]
    ELSE IF text.lon.t = "missing"
    THEN [ok |-> FALSE, e |-> "missing field longitude",
          latitude |-> 0, longitude |-> 0]
    ELSE [ok |-> TRUE, e |-> "",
          latitude |-> F32(text.lat.n), longitude |-> F32(text.lon.n)]

-----------------------------------------------------------------------------
(* Responses *)

Response(success, data, error) ==
    [success |-> success, data |-> data, error |-> error]

DataResponse(wikipedia) == [wikipedia |-> wikipedia]

\* QueryResponse with another wording of the no-match error
QueryResponse_NotFoundWording(idx, params) ==
    LET found == Find(idx, params.latitude, params.longitude)
    IN  IF IsSome(found)
        THEN Response(TRUE, Some(DataResponse(found[1])), None)
        ELSE Response(FALSE, None, Some(<<"Not found">>))

\* QueryResponse with success: true copied into the no-match arm
QueryResponse_SuccessOnNoMatch(idx, params) ==
    LET found == Find(idx, params.latitude, params.longitude)
    IN  IF IsSome(found)
        THEN Response(TRUE, Some(DataResponse(found[1])), None)
        ELSE Response(TRUE, None, Some(<<"No address found">>))

\* the response to a parsed query
QueryResponse(idx, params) ==
    LET found == Find(idx, params.latitude, params.longitude)
    IN  IF IsSome(found)
        THEN Response(TRUE, Some(DataResponse(found[1])), None)
        ELSE Response(FALSE, None, Some(<<"No address found">>))

\* the response to a text that does not parse; format!("Invalid query format: {}", e)
ErrorResponse(e) ==
    Response(FALSE, None, Some(<<"Invalid query format: ", e>>))

\* AfterSendErr with the break of the query arm in the error arm as well
AfterSendErr_AlwaysBreak(branch) == "send_failed"

\* AfterSendErr with the send result ignored in the query arm as well
AfterSendErr_NeverBreak(branch) == "recv"

\* where the session goes when sink.send returns Err
AfterSendErr(branch) == IF branch = "query" THEN "send_failed" ELSE "recv"

\* the loop is left: while let Some(Ok(msg)) does not match, or break
Closed == {"stream_closed", "send_failed"}

RECURSIVE SumLen(_, _)
SumLen(f, n) == IF n = 0 THEN 0 ELSE Len(f[n]) + SumLen(f, n - 1)

\* messages taken from the inbound streams of all connections
TotalTaken == SumLen(inbox, NumConns)

\* one send attempt: the message answered, the response, the outcome
Attempt(c, ok) ==
    [seq |-> Len(inbox[c]), text |-> cur[c].text, resp |-> cur[c].resp, ok |-> ok]

-----------------------------------------------------------------------------
(* ws_handler: one session per connection *)

\* the upgrade completes and the session task enters its receive loop
Connect(c) ==
    /\ pc = "serving"
    /\ conn[c] = "idle"
    /\ conn' = [conn EXCEPT ![c] = "recv"]
    /\ UNCHANGED <<inbox, cur, log>>
    /\ UNCHANGED <<startupVars, prev>>

\* the index with the boundaries named r moved to the front
MoveToFront(idx, r) ==
    SelectSeq(idx, LAMBDA b : b.ref = r) \o SelectSeq(idx, LAMBDA b : b.ref # r)

\* HandleQuery whose find keeps the last hit at the front of the index
HandleQuery_MoveToFront(c, text) ==
    /\ pc = "serving"
    /\ conn[c] = "recv" /\ TotalTaken < MaxMsgs
    /\ ParseQuery(text).ok
    /\ inbox' = [inbox EXCEPT ![c] = Append(@, TextMsg(text))]
    /\ cur' = [cur EXCEPT ![c] = [branch |-> "query", text |-> text,
                                  resp |-> QueryResponse(geo, ParseQuery(text))]]
    /\ conn' = [conn EXCEPT ![c] = "send"]
    /\ geo' = IF cur'[c].resp.success
              THEN MoveToFront(geo, cur'[c].resp.data[1].wikipedia)
              ELSE geo
    /\ UNCHANGED log
    /\ UNCHANGED <<cacheArg, extract, file0, file, pc, opens, reads, builds, writes, prev>>

\* the index with the boundaries named r moved to the back
MoveToBack(idx, r) ==
    SelectSeq(idx, LAMBDA b : b.ref # r) \o SelectSeq(idx, LAMBDA b : b.ref = r)

\* HandleQuery whose find moves the hit to the back of the index
HandleQuery_MoveToBack(c, text) ==
    /\ pc = "serving"
    /\ conn[c] = "recv" /\ TotalTaken < MaxMsgs
    /\ ParseQuery(text).ok
    /\ inbox' = [inbox EXCEPT ![c] = Append(@, TextMsg(text))]
    /\ cur' = [cur EXCEPT ![c] = [branch |-> "query", text |-> text,
                                  resp |-> QueryResponse(geo, ParseQuery(text))]]
    /\ conn' = [conn EXCEPT ![c] = "send"]
    /\ geo' = IF cur'[c].resp.success
              THEN MoveToBack(geo, cur'[c].resp.data[1].wikipedia)
              ELSE geo
    /\ UNCHANGED log
    /\ UNCHANGED <<cacheArg, extract, file0, file, pc, opens, reads, builds, writes, prev>>

\* stream.next() yields a text that parses: find, build the response, send it
HandleQuery(c, text) ==
    /\ pc = "serving"
    /\ conn[c] = "recv" /\ TotalTaken < MaxMsgs
    /\ ParseQuery(text).ok
    /\ inbox' = [inbox EXCEPT ![c] = Append(@, TextMsg(text))]
    /\ cur' = [cur EXCEPT ![c] = [branch |-> "query", text |-> text,
                                  resp |-> QueryResponse(geo, ParseQuery(text))]]
    /\ conn' = [conn EXCEPT ![c] = "send"]
    /\ UNCHANGED log
    /\ UNCHANGED <<startupVars, prev>>

\* stream.next() yields a text that does not parse: send the error response
HandleInvalid(c, text) ==
    /\ pc = "serving"
    /\ conn[c] = "recv" /\ TotalTaken < MaxMsgs
    /\ ~ParseQuery(text).ok
    /\ inbox' = [inbox EXCEPT ![c] = Append(@, TextMsg(text))]
    /\ cur' = [cur EXCEPT ![c] = [branch |-> "invalid", text |-> text,
                                  resp |-> ErrorResponse(ParseQuery(text).e)]]
    /\ conn' = [conn EXCEPT ![c] = "send"]
    /\ UNCHANGED log
    /\ UNCHANGED <<startupVars, prev>>

\* sink.send(..).await returns Ok
SendOk(c) ==
    /\ pc = "serving"
    /\ conn[c] = "send"
    /\ log' = [log EXCEPT ![c] = Append(@, Attempt(c, TRUE))]
    /\ cur' = [cur EXCEPT ![c] = NoCur]
    /\ conn' = [conn EXCEPT ![c] = "recv"]
    /\ UNCHANGED inbox
    /\ UNCHANGED <<startupVars, prev>>

\* SendErr with one shutdown flag for all sessions: a failed query send
\* ends the receiving sessions of the other connections too
SendErr_SharedShutdown(c) ==
    /\ pc = "serving"
    /\ conn[c] = "send"
    /\ log' = [log EXCEPT ![c] = Append(@, Attempt(c, FALSE))]
    /\ cur' = [cur EXCEPT ![c] = NoCur]
    /\ conn' = [d \in Conns |->
                   IF d = c THEN AfterSendErr(cur[c].branch)
                   ELSE IF cur[c].branch = "query" /\ conn[d] = "recv"
                   THEN "send_failed" ELSE conn[d]]
    /\ UNCHANGED inbox
    /\ UNCHANGED <<startupVars, prev>>

\* sink.send(..).await returns Err
SendErr(c) ==
    /\ pc = "serving"
    /\ conn[c] = "send"
    /\ log' = [log EXCEPT ![c] = Append(@, Attempt(c, FALSE))]
    /\ cur' = [cur EXCEPT ![c] = NoCur]
    /\ conn' = [conn EXCEPT ![c] = AfterSendErr(cur[c].branch)]
    /\ UNCHANGED inbox
    /\ UNCHANGED <<startupVars, prev>>

\* HandleNonText with the loop left on every message that is not text
HandleNonText_Break(c, m) ==
    /\ pc = "serving"
    /\ conn[c] = "recv" /\ TotalTaken < MaxMsgs
    /\ m \in NonTexts
    /\ inbox' = [inbox EXCEPT ![c] = Append(@, m)]
    /\ conn' = [conn EXCEPT ![c] = "stream_closed"]
    /\ UNCHANGED <<cur, log>>
    /\ UNCHANGED <<startupVars, prev>>

\* HandleNonText that polls the stream while a send is still pending
HandleNonText_DuringSend(c, m) ==
    /\ pc = "serving"
    /\ conn[c] \in {"recv", "send"} /\ TotalTaken < MaxMsgs
    /\ m \in NonTexts
    /\ inbox' = [inbox EXCEPT ![c] = Append(@, m)]
    /\ UNCHANGED <<conn, cur, log>>
    /\ UNCHANGED <<startupVars, prev>>

\* stream.next() yields a message that is not Message::Text
HandleNonText(c, m) ==
    /\ pc = "serving"
    /\ conn[c] = "recv" /\ TotalTaken < MaxMsgs
    /\ m \in NonTexts
    /\ inbox' = [inbox EXCEPT ![c] = Append(@, m)]
    /\ UNCHANGED <<conn, cur, log>>
    /\ UNCHANGED <<startupVars, prev>>

\* StreamEnd with a last error response sent once the stream has ended
StreamEnd_Farewell(c) ==
    /\ pc = "serving"
    /\ conn[c] = "recv"
    /\ conn' = [conn EXCEPT ![c] = "stream_closed"]
    /\ log' = [log EXCEPT ![c] = Append(@, [seq |-> Len(inbox[c]),
                                            text |-> Garbage,
                                            resp |-> ErrorResponse("closed"),
                                            ok |-> TRUE])]
    /\ UNCHANGED <<inbox, cur>>
    /\ UNCHANGED <<startupVars, prev>>

\* stream.next() yields None
StreamEnd(c) ==
    /\ pc = "serving"
    /\ conn[c] = "recv"
    /\ conn' = [conn EXCEPT ![c] = "stream_closed"]
    /\ UNCHANGED <<inbox, cur, log>>
    /\ UNCHANGED <<startupVars, prev>>

\* stream.next() yields Some(Err(_))
StreamError(c) ==
    /\ pc = "serving"
    /\ conn[c] = "recv"
    /\ conn' = [conn EXCEPT ![c] = "stream_closed"]
    /\ UNCHANGED <<inbox, cur, log>>
    /\ UNCHANGED <<startupVars, prev>>

Session(c) ==
    \/ Connect(c)
    \/ \E text \in Texts : HandleQuery(c, text)
    \/ \E text \in Texts : HandleInvalid(c, text)
    \/ SendOk(c) \/ SendErr(c)
    \/ \E m \in NonTexts : HandleNonText(c, m)
    \/ StreamEnd(c) \/ StreamError(c)

Next == Startup \/ \E c \in Conns : Session(c)

Spec == Init /\ [][Next]_vars

\* the pending send of connection c completes, and a stream that connection
\* c waits on ends or fails once no more messages come
SessionFairness(c) ==
    /\ WF_vars(SendOk(c) \/ SendErr(c))
    /\ WF_vars(StreamEnd(c) \/ StreamError(c))

\* the server with clients whose streams end and whose sends complete
FairSpec == Spec /\ \A c \in Conns : SessionFairness(c)

\* the client whose queries are followed from run to run
Probe == 1

\* runs of the process one after the other, on the cache file as the run
\* before left it
NextRestart == Startup \/ Restart \/ Session(Probe)

SpecRestart == Init /\ [][NextRestart]_vars

-----------------------------------------------------------------------------
(* Startup: the cache artifact *)

\* a cache path is given and the file there opens but does not decode
InvalidCache ==
    /\ cacheArg
    /\ file0.exists /\ file0.readable
    /\ ~Deserialize(file0.bytes).ok

\* a cache path is given and the file there opens and decodes
ValidCache ==
    /\ cacheArg
    /\ file0.exists /\ file0.readable
    /\ Deserialize(file0.bytes).ok

\* the build from the extract ran to its end
BuildCompleted == builds = 1 /\ geo = extract.bs /\ pc # "build"

\* C1: an invalid cache artifact is a cache miss: the process does not abort
\* on it, and when startup is through the index is the one built from the
\* extract.
C1_InvalidCacheIsMiss ==
    InvalidCache =>
        /\ pc # "panic_load"
        /\ pc \in {"serve", "serving"} => BuildCompleted

\* C2: the file at the cache path is at all times absent, the artifact that
\* was there when the process started, or the complete new artifact.
C2_CacheNeverPartial ==
    \/ ~file.exists
    \/ file0.exists /\ file.bytes = file0.bytes
    \/ file.bytes = Serialize(extract.bs)

\* C3: with a cache path, no cache file and a completed build, a failing
\* cache write does not stop startup.
C3_WriteFailureKeepsIndex ==
    (cacheArg /\ ~file0.exists /\ BuildCompleted) => pc # "panic_write"

-----------------------------------------------------------------------------
(* Sessions: what is sent *)

IsText(m) == m.type = "text"

\* the send attempts of connection c that answer its k-th message
AttemptsFor(c, k) == {i \in 1..Len(log[c]) : log[c][i].seq = k}

\* the k-th message of connection c is being answered: its send is pending
Pending(c, k) == k = Len(inbox[c]) /\ conn[c] = "send"

\* the responses of connection c to its k-th message, sent or pending
ResponsesFor(c, k) ==
    {log[c][i].resp : i \in AttemptsFor(c, k)}
        \cup (IF Pending(c, k) THEN {cur[c].resp} ELSE {})

\* the message answered last on connection c was its k-th
LastAnswered(c, k) == Len(log[c]) > 0 /\ log[c][Len(log[c])].seq = k

IsInvalidFormat(r) ==
    /\ r.success = FALSE
    /\ r.data = None
    /\ IsSome(r.error)
    /\ r.error[1][1] = "Invalid query format: "

\* C4: a text that does not parse gets exactly one response, success=false,
\* no data, error starting with "Invalid query format: "; the session is not
\* ended by it, whatever the send returns.
C4_InvalidQueryAnswered ==
    \A c \in Conns : \A k \in 1..Len(inbox[c]) :
        (IsText(inbox[c][k]) /\ ~ParseQuery(inbox[c][k].text).ok) =>
            /\ \A r \in ResponsesFor(c, k) : IsInvalidFormat(r)
            /\ IF Pending(c, k) THEN AttemptsFor(c, k) = {}
                                ELSE Cardinality(AttemptsFor(c, k)) = 1
            /\ LastAnswered(c, k) => conn[c] # "send_failed"

\* an invalid text whose send failed, and then the next message answered
C4_Witness ==
    \E c \in Conns :
        /\ Len(log[c]) = 2
        /\ ~ParseQuery(log[c][1].text).ok /\ ~log[c][1].ok
        /\ log[c][2].seq = 2 /\ log[c][2].ok

NoAddressFound == Response(FALSE, None, Some(<<"No address found">>))

\* the k-th message of connection c is a query that find answers with None
NoMatch(c, k) ==
    /\ IsText(inbox[c][k])
    /\ ParseQuery(inbox[c][k].text).ok
    /\ Find(geo, ParseQuery(inbox[c][k].text).latitude,
            ParseQuery(inbox[c][k].text).longitude) = None

\* C5: a well-formed query that find answers with None gets exactly one
\* response, success=false with error "No address found" and no data; the
\* server keeps serving, and once the response is sent the session is not
\* ended by it.
C5_NoMatchResponse ==
    \A c \in Conns : \A k \in 1..Len(inbox[c]) :
        NoMatch(c, k) =>
            /\ pc = "serving"
            /\ \A r \in ResponsesFor(c, k) : r = NoAddressFound
            /\ IF Pending(c, k) THEN AttemptsFor(c, k) = {}
                                ELSE Cardinality(AttemptsFor(c, k)) = 1
            /\ \A i \in AttemptsFor(c, k) :
                   (log[c][i].ok /\ i = Len(log[c])) => conn[c] # "send_failed"

\* a no-match answered (the point in the hole of Francia), the session receiving
C5_Witness ==
    \E c \in Conns :
        /\ Len(log[c]) = 1 /\ log[c][1].ok
        /\ log[c][1].text = Obj(Num(43), Num(1))
        /\ log[c][1].resp = NoAddressFound
        /\ conn[c] = "recv"

\* every response of connection c, sent or pending, with the text it answers
Responses(c) ==
    {[text |-> log[c][i].text, seq |-> log[c][i].seq, resp |-> log[c][i].resp] :
        i \in 1..Len(log[c])}
        \cup (IF conn[c] = "send"
              THEN {[text |-> cur[c].text, seq |-> Len(inbox[c]), resp |-> cur[c].resp]}
              ELSE {})

\* C6: in every response success, the presence of data.wikipedia and the
\* absence of error go together, and a successful response carries the
\* reference find returns for the point of the message it answers.
C6_ResponseShape ==
    \A c \in Conns : \A e \in Responses(c) :
        /\ e.resp.success <=> IsSome(e.resp.data)
        /\ e.resp.success <=> ~IsSome(e.resp.error)
        /\ e.seq \in 1..Len(inbox[c]) /\ inbox[c][e.seq] = TextMsg(e.text)
        /\ e.resp.success =>
               /\ ParseQuery(e.text).ok
               /\ Find(geo, ParseQuery(e.text).latitude, ParseQuery(e.text).longitude)
                      = Some(e.resp.data[1].wikipedia)

\* both kinds of response sent: a match and a no-match
C6_Witness ==
    \E c \in Conns : \E i, j \in 1..Len(log[c]) :
        /\ log[c][i].resp.success /\ log[c][i].resp.data[1].wikipedia = "Paris"
        /\ ~log[c][j].resp.success

-----------------------------------------------------------------------------
(* Startup: load or build, then serve *)

\* C7: with a valid cache artifact the index is loaded from it: the build is
\* not run, and the cache file is not written.
C7_CacheHitSkipsBuild ==
    ValidCache =>
        /\ builds = 0 /\ writes = 0 /\ file = file0
        /\ pc \in {"serve", "serving"} =>
               reads = 1 /\ geo = Deserialize(file0.bytes).v

\* serving the index of the cache, which is not what the extract holds
C7_Witness ==
    /\ ValidCache /\ pc = "serving"
    /\ geo = OldWorld /\ geo # extract.bs

\* C8: the cache is opened, read and written at most once; it is written
\* only with a cache path and after a completed build; without a cache path
\* it is not touched.
C8_CacheReadWriteOnce ==
    /\ opens <= 1 /\ reads <= 1 /\ writes <= 1
    /\ reads <= opens
    /\ writes = 1 => cacheArg /\ BuildCompleted
    /\ ~cacheArg => opens = 0 /\ reads = 0 /\ writes = 0 /\ file = file0

\* serving after a build whose index was written to the cache
C8_Witness ==
    /\ cacheArg /\ pc = "serving"
    /\ writes = 1 /\ reads = 0 /\ file.bytes = Serialize(geo)

\* the index of this run once load or build is through
CompleteIndex == IF builds = 0 THEN Deserialize(file0.bytes).v ELSE extract.bs

Stopped == {"panic_load", "panic_build", "panic_write", "crashed", "exited"}

\* C9: connections are served only after the load or the build has
\* completed, every response comes from the complete index, and a run whose
\* load or build does not complete serves none.
C9_NoPartialIndexServed ==
    /\ \A c \in Conns : conn[c] # "idle" => pc = "serving"
    /\ pc = "serving" =>
           /\ geo = CompleteIndex
           /\ BuildCompleted \/ (reads = 1 /\ Deserialize(file0.bytes).ok)
    /\ \A c \in Conns : \A e \in Responses(c) :
           ParseQuery(e.text).ok =>
               e.resp = QueryResponse(CompleteIndex, ParseQuery(e.text))
    /\ pc \in Stopped => \A c \in Conns : conn[c] = "idle" /\ inbox[c] = <<>>

\* after a build, a query answered with the boundary the build added last
C9_Witness ==
    /\ pc = "serving" /\ builds = 1
    /\ \E c \in Conns : \E i \in 1..Len(log[c]) :
           /\ log[c][i].resp.success
           /\ log[c][i].resp.data[1].wikipedia = "Paris"

\* C10: while the server serves, no step changes the index.
C10_IndexReadOnly == [][pc = "serving" => geo' = geo /\ pc' = "serving"]_vars

\* a query whose send failed and a non-text message, both handled
C10_Witness ==
    /\ pc = "serving"
    /\ \E c \in Conns : conn[c] = "send_failed"
    /\ \E c \in Conns : \E k \in 1..Len(inbox[c]) : ~IsText(inbox[c][k])

-----------------------------------------------------------------------------
(* Sessions: one connection and the others *)

\* all there is of the session of connection c
SessionOf(c) == <<conn[c], inbox[c], cur[c], log[c]>>

\* the response the handler owes a text, from the index alone
ResponseTo(idx, text) ==
    IF ParseQuery(text).ok THEN QueryResponse(idx, ParseQuery(text))
                           ELSE ErrorResponse(ParseQuery(text).e)

\* the reason a session has ended lies in its own history
OwnEnd(c) ==
    conn[c] = "send_failed" =>
        /\ Len(log[c]) > 0
        /\ ~log[c][Len(log[c])].ok
        /\ ParseQuery(log[c][Len(log[c])].text).ok

\* C11: a step of one connection's session (a malformed message, a failed
\* send, its end) leaves every other session as it was; a session ends only
\* by its own send failure or stream, and every response is the one owed to
\* the connection's own message.
C11_SessionsIsolated ==
    [][\A c \in Conns :
          /\ SessionOf(c)' # SessionOf(c) =>
                 \A d \in Conns \ {c} : SessionOf(d)' = SessionOf(d)
          /\ OwnEnd(c)'
          /\ \A e \in Responses(c)' : e.resp = ResponseTo(geo, e.text)]_vars

\* one session ended by a failed send, another answered and still receiving
C11_Witness ==
    \E c, d \in Conns :
        /\ c # d
        /\ conn[c] = "send_failed"
        /\ Len(log[d]) = 1 /\ log[d][1].ok /\ log[d][1].resp.success
        /\ conn[d] = "recv"

\* the point a parsed text asks about
PointOf(text) == <<ParseQuery(text).latitude, ParseQuery(text).longitude>>

-----------------------------------------------------------------------------
(* The cache from one run to the next *)

\* what the design compares of an index: per boundary the reference, the
\* outer ring and the holes
Content(idx) == [i \in 1..Len(idx) |-> <<idx[i].ref, idx[i].bbox, idx[i].holes>>]

\* C13: when the run before found no cache, built the index and wrote it,
\* this run with the same cache path loads (and does not build) an index of
\* the same boundary content, and answers every query as that index does.
C13_CacheRoundTrip ==
    prev.wrote =>
        /\ pc # "panic_load" /\ builds = 0
        /\ pc \in {"serve", "serving"} =>
               reads = 1 /\ Content(geo) = Content(prev.geo)
        /\ \A c \in Conns : \A e \in Responses(c) :
               e.resp = ResponseTo(prev.geo, e.text)

\* the second run serves from the cache the first wrote: Paris is found
C13_Witness ==
    /\ prev.wrote /\ prev.n = 1 /\ pc = "serving"
    /\ \E i \in 1..Len(log[Probe]) :
           /\ log[Probe][i].resp.success
           /\ log[Probe][i].resp.data[1].wikipedia = "Paris"

-----------------------------------------------------------------------------
(* Sessions: order *)

\* the positions of the texts among the messages connection c has taken
TextsTaken(c) == {k \in 1..Len(inbox[c]) : IsText(inbox[c][k])}

\* C14: a connection's messages are handled one at a time: every send
\* attempt answers a text taken before, no text is answered twice, the
\* attempts are in the order of the texts, and while a send is pending the
\* text it answers is the last message taken, all texts before it having had
\* their send attempted.
C14_OneAtATime ==
    \A c \in Conns :
        /\ \A i \in 1..Len(log[c]) :
               /\ log[c][i].seq \in TextsTaken(c)
               /\ inbox[c][log[c][i].seq] = TextMsg(log[c][i].text)
        /\ \A i, j \in 1..Len(log[c]) : i < j => log[c][i].seq < log[c][j].seq
        /\ conn[c] = "send" =>
               /\ Len(inbox[c]) \in TextsTaken(c)
               /\ inbox[c][Len(inbox[c])] = TextMsg(cur[c].text)
               /\ AttemptsFor(c, Len(inbox[c])) = {}
        /\ \A k \in TextsTaken(c) : AttemptsFor(c, k) # {} \/ Pending(c, k)

\* two different texts on one connection, answered in their order
C14_Witness ==
    \E c \in Conns :
        /\ Len(log[c]) = 2
        /\ log[c][1].seq = 1 /\ log[c][2].seq = 2
        /\ log[c][1].text # log[c][2].text

-----------------------------------------------------------------------------
(* Sessions: failed sends *)

\* this step is a send attempt of connection c that fails
SendFails(c) ==
    /\ conn[c] = "send"
    /\ Len(log'[c]) = Len(log[c]) + 1
    /\ ~log'[c][Len(log'[c])].ok

\* C15: a failed send of the response to a well-formed query ends the
\* session, which then takes no further message and sends nothing more; a
\* failed send of an "Invalid query format" response is ignored and the
\* session is back at receiving.
C15_SendFailure ==
    [][\A c \in Conns :
          /\ SendFails(c) =>
                 conn'[c] = IF ParseQuery(cur[c].text).ok THEN "send_failed"
                                                          ELSE "recv"
          /\ conn[c] = "send_failed" => SessionOf(c)' = SessionOf(c)]_vars

\* an ignored failure of an error response, then a query whose failed send
\* ended the session
C15_Witness ==
    \E c \in Conns :
        /\ Len(log[c]) = 2
        /\ ~ParseQuery(log[c][1].text).ok /\ ~log[c][1].ok
        /\ ParseQuery(log[c][2].text).ok /\ ~log[c][2].ok
        /\ conn[c] = "send_failed"

-----------------------------------------------------------------------------
(* Sessions: messages that are not text *)

\* this step takes a message that is not text from the stream of c
TakesNonText(c) ==
    /\ Len(inbox'[c]) = Len(inbox[c]) + 1
    /\ inbox'[c][Len(inbox'[c])] \in NonTexts

\* C16: taking a binary, ping, pong or close message sends nothing, records
\* no attempt and leaves the session receiving; no response is ever
\* attributed to such a message.
C16_NonTextIgnored ==
    [][\A c \in Conns :
          /\ TakesNonText(c) =>
                 /\ conn[c] = "recv" /\ conn'[c] = "recv"
                 /\ log'[c] = log[c] /\ cur'[c] = cur[c]
          /\ \A k \in 1..Len(inbox'[c]) :
                 inbox'[c][k] \in NonTexts => AttemptsFor(c, k)' = {}]_vars

\* a query answered after a message that is not text was skipped
C16_Witness ==
    \E c \in Conns :
        /\ Len(inbox[c]) = 2
        /\ inbox[c][1] \in NonTexts /\ IsText(inbox[c][2])
        /\ Len(log[c]) = 1 /\ log[c][1].seq = 2 /\ log[c][1].ok

-----------------------------------------------------------------------------
(* Sessions: termination *)

\* this step ends the session of c because its stream ended or failed
EndsOnStream(c) ==
    /\ conn[c] = "recv" /\ conn'[c] = "stream_closed"
    /\ inbox'[c] = inbox[c] /\ log'[c] = log[c] /\ cur'[c] = cur[c]

\* this step ends the session of c because the send of a query response failed
EndsOnSend(c) ==
    /\ conn[c] = "send" /\ conn'[c] = "send_failed"
    /\ ParseQuery(cur[c].text).ok
    /\ SendFails(c)

\* a session ends only on the end or failure of its stream, with nothing more
\* sent, or on the failed send of a query response; it ends on each failed
\* send of a query response; once ended it does nothing more
C17_EndsOnlyWhen ==
    [][\A c \in Conns :
          /\ (conn[c] \notin Closed /\ conn'[c] \in Closed) =>
                 EndsOnStream(c) \/ EndsOnSend(c)
          /\ (SendFails(c) /\ ParseQuery(cur[c].text).ok) => EndsOnSend(c)
          /\ conn[c] \in Closed => SessionOf(c)' = SessionOf(c)]_vars

\* a session whose stream ends and whose sends complete comes to its end
\* (a connected session never goes back to idle, so this is: each session
\* that was ever connected is ended from some point on)
C17_EventuallyEnds ==
    <>[](\A c \in Conns : conn[c] \in Closed \cup {"idle"})

\* C17: a session terminates exactly on the end of its inbound stream, a
\* receive error, or a failed send of a query response; on the first two it
\* sends nothing more; and with a stream that eventually ends or fails and
\* sends that complete, every session eventually terminates.
C17_Termination == C17_EndsOnlyWhen /\ C17_EventuallyEnds

\* one session ended by its stream after an answered message, another by a
\* failed send of a query response
C17_Witness ==
    \E c, d \in Conns :
        /\ conn[c] = "stream_closed" /\ Len(log[c]) = 1 /\ log[c][1].ok
        /\ conn[d] = "send_failed"

====
